---------------------------- MODULE Spec2Model ----------------------------
(***************************************************************************)
(* A model of PDF-Factory: the font resolver (util/font.py), the drawing   *)
(* cache (util/svg.py) and the style registry, page templates and document *)
(* assembler (util/pdf.py).                                                *)
(*                                                                         *)
(* Library behaviour the code relies on (reportlab's StyleSheet1,          *)
(* BaseDocTemplate.build, svglib's svg2rlg) is modelled at the call sites  *)
(* of the repository's code.                                               *)
(***************************************************************************)
EXTENDS Integers, Sequences, FiniteSets, TLC

VARIABLES
    \* ---- util/font.py ----
    override,      \* os.environ.get('pdfFactory.font.cn.path'): set or not, and its value
    registrable,   \* the font files TTFont + registerFont accept
    cidOk,         \* whether UnicodeCIDFont('STSong-Light') registers
    registered,    \* the names pdfmetrics.registerFont has accepted, in order
    font_name,     \* PDFBasic.font_name
    font_status,   \* "pending" | "returned" | "raised"
    \* ---- setup_styles ----
    sheet,         \* what getSampleStyleSheet() returns
    styles,        \* PDFBasic.styles
    styles_status, \* "pending" | "returned"
    \* ---- util/svg.py ----
    environ,       \* os.environ restricted to the two svg keys
    cache,         \* SVGCache.cache
    loads,         \* per key, how many times svg2rlg returned for it
    firstId,       \* per key, the instance stored by its first load (0: none)
    nextId,        \* the next fresh object identity
    imported,      \* "no" | "yes" | "failed": the import of util/pdf.py
    svg_ret,       \* what the last cache caller saw
    calls,         \* page-decoration callbacks run so far
    \* ---- PDFGenerator ----
    elements,      \* self.elements
    buff,          \* self.buff: the documents written into the BytesIO
    date,          \* self.date: the build moment (0: never set)
    files,         \* the file system under the save paths
    log,           \* the calls of logger.warning, in order
    built,         \* the last build: its input sequence and outcome
    ret,           \* the last call on the generator: what it returned or raised
    nops,          \* calls made on the generator so far
    stamp          \* per save path, the date when it was last written (-1: never)

fontVars  == <<override, registrable, cidOk, registered, font_name, font_status>>
styleVars == <<sheet, styles, styles_status>>
svgVars   == <<environ, cache, loads, firstId, nextId, imported, svg_ret, calls>>
docVars   == <<elements, buff, date, files, built, ret, nops, stamp>>
vars      == <<fontVars, styleVars, svgVars, docVars, log>>

\* Bounds of the model.
MaxCalls   == 4   \* page decorations run in the drawing-cache specification
MaxOps     == 4   \* calls made on the generator
FrameLines == 3   \* the lines of text a frame holds

-----------------------------------------------------------------------------
(***************************************************************************)
(* util/font.py                                                            *)
(***************************************************************************)

\* A path is kept in the three parts os.path.basename / splitext cut it into.
Path(d, s, e) == [dir |-> d, stem |-> s, ext |-> e]

EmptyPath == Path("", "", "")

default_font_name == "STSong-Light"

system_font_paths ==
    << Path("C:/Windows/Fonts", "msyh", ".ttc"),
       Path("C:/Windows/Fonts", "simsun", ".ttc"),
       Path("C:/Windows/Fonts", "simhei", ".ttf"),
       Path("/System/Library/Fonts", "STSong", ".ttf"),
       Path("/System/Library/Fonts", "STHeiti Medium", ".ttc"),
       Path("/usr/share/fonts/wenquanyi", "wqy-zenhei", ".ttc"),
       Path("/usr/share/fonts/truetype/wqy", "wqy-zenhei", ".ttc") >>

\* The override values the environment is drawn from: unset, the empty
\* string, a font of its own, and a second copy of a system font's name.
OverridePaths ==
    { Path("/opt/fonts", "custom", ".ttf"), Path("/opt/fonts", "simhei", ".otf") }

OverrideChoices ==
    { [set |-> FALSE, value |-> EmptyPath], [set |-> TRUE, value |-> EmptyPath] }
        \cup { [set |-> TRUE, value |-> p] : p \in OverridePaths }

AllFontPaths ==
    { system_font_paths[i] : i \in 1..Len(system_font_paths) } \cup OverridePaths

\* os.path.splitext(os.path.basename(path))[0]
BaseName(path) == path.stem

\* the walrus test: an unset or empty value is falsy
Truthy(ov) == ov.set /\ ov.value # EmptyPath

font_paths_override_last(ov) ==
    system_font_paths \o (IF Truthy(ov) THEN <<ov.value>> ELSE <<>>)

font_paths(ov) ==
    (IF Truthy(ov) THEN <<ov.value>> ELSE <<>>) \o system_font_paths

\* the for loop with its bare except: the first path that registers wins
RECURSIVE TryPaths(_, _)
TryPaths(paths, ok) ==
    IF paths = <<>> THEN [found |-> FALSE, name |-> ""]
    ELSE IF Head(paths) \in ok
         THEN [found |-> TRUE, name |-> BaseName(Head(paths))]
         ELSE TryPaths(Tail(paths), ok)

register_chinese_font(ov, ok, cid) ==
    LET r == TryPaths(font_paths(ov), ok) IN
    IF r.found
    THEN [status |-> "returned", name |-> r.name, registered |-> <<r.name>>]
    ELSE IF cid
         THEN [status |-> "returned", name |-> default_font_name,
               registered |-> <<default_font_name>>]
         ELSE [status |-> "raised", name |-> "", registered |-> <<>>]

RegisterChineseFont ==
    /\ font_status = "pending"
    /\ LET r == register_chinese_font(override, registrable, cidOk) IN
        /\ font_status' = r.status
        /\ font_name' = r.name
        /\ registered' = registered \o r.registered
    /\ UNCHANGED <<override, registrable, cidOk>>
    /\ UNCHANGED <<styleVars, svgVars, docVars, log>>

-----------------------------------------------------------------------------
(***************************************************************************)
(* setup_styles (util/pdf.py) over reportlab's StyleSheet1                  *)
(***************************************************************************)

\* A style sheet: byName maps a name to its style, byAlias an alias to the
\* name of the style it stands for.
Style(f, p) == [fontName |-> f, parent |-> p]

\* getSampleStyleSheet(): the stock styles the code reads, with their aliases
SampleStyleSheet ==
    [ byName  |-> ( "Normal"   :> Style("Helvetica", "")
                 @@ "BodyText" :> Style("Helvetica", "Normal")
                 @@ "Italic"   :> Style("Helvetica-Oblique", "BodyText")
                 @@ "Heading1" :> Style("Helvetica-Bold", "Normal")
                 @@ "Heading2" :> Style("Helvetica-Bold", "Normal")
                 @@ "Code"     :> Style("Courier", "Normal") ),
      byAlias |-> ( "bt" :> "BodyText" @@ "italic" :> "Italic"
                 @@ "h1" :> "Heading1" @@ "h2" :> "Heading2"
                 @@ "code" :> "Code" ) ]

custom_styles ==
    << [name |-> "cTitle",        parent |-> "Heading1"],
       [name |-> "cSubTitle",     parent |-> "Heading2"],
       [name |-> "cBodyText",     parent |-> "BodyText"],
       [name |-> "cCenteredText", parent |-> "Normal"],
       [name |-> "cImageCaption", parent |-> "Italic"],
       [name |-> "cStopper",      parent |-> "Normal"] >>

CustomNames == { custom_styles[i].name : i \in 1..Len(custom_styles) }

\* A stock sheet that already holds the names in N as styles and the names
\* in A as aliases (of Code): the sheets a custom name can collide with.
StockSheet(N, A) ==
    [ byName  |-> [n \in N |-> Style("Times-Roman", "Normal")]
                    @@ SampleStyleSheet.byName,
      byAlias |-> [a \in A |-> "Code"] @@ SampleStyleSheet.byAlias ]

\* StyleSheet1.__contains__: key in self.byAlias or key in self.byName
StyleContains(sh, key) == key \in DOMAIN sh.byAlias \/ key \in DOMAIN sh.byName

\* StyleSheet1.__getitem__ resolves an alias first, then a name: the name
\* of the style object the lookup yields, for a key the sheet contains
StyleKey(sh, key) ==
    IF key \in DOMAIN sh.byAlias THEN sh.byAlias[key] ELSE key

\* the loop over custom_styles: a name the sheet has is skipped with a
\* warning, any other is added with its parent's attributes
RECURSIVE AddCustomStyles(_, _, _, _)
AddCustomStyles(i, stock, sh, warns) ==
    IF i > Len(custom_styles) THEN [styles |-> sh, warns |-> warns]
    ELSE LET c == custom_styles[i] IN
         IF StyleContains(sh, c.name)
         THEN AddCustomStyles(i + 1, stock, sh,
                  Append(warns, [event |-> "style_defined", name |-> c.name]))
         ELSE LET parent == stock.byName[StyleKey(stock, c.parent)] IN
              AddCustomStyles(i + 1, stock,
                  [sh EXCEPT !.byName =
                      (c.name :> Style(parent.fontName, c.parent)) @@ @],
                  warns)

\* the loop over styles.byName: styles[style_name].fontName = font_name
RECURSIVE SetFontsStockOnly(_, _, _)
SetFontsStockOnly(names, sh, font) ==
    IF names = {} THEN sh
    ELSE LET n == CHOOSE x \in names : TRUE
             k == StyleKey(sh, n) IN
         SetFontsStockOnly(names \ {n},
             IF n \in CustomNames THEN sh
             ELSE [sh EXCEPT !.byName[k].fontName = font], font)

RECURSIVE SetFonts(_, _, _)
SetFonts(names, sh, font) ==
    IF names = {} THEN sh
    ELSE LET n == CHOOSE x \in names : TRUE
             k == StyleKey(sh, n) IN
         SetFonts(names \ {n}, [sh EXCEPT !.byName[k].fontName = font], font)

setup_styles(stock, font) ==
    LET added == AddCustomStyles(1, stock, stock, <<>>) IN
    [ styles |-> SetFonts(DOMAIN added.styles.byName, added.styles, font),
      warns  |-> added.warns ]

SetupStyles ==
    /\ styles_status = "pending"
    /\ font_status = "returned"
    /\ LET r == setup_styles(sheet, font_name) IN
        /\ styles' = r.styles
        /\ log' = log \o r.warns
    /\ styles_status' = "returned"
    /\ UNCHANGED <<sheet, fontVars, svgVars, docVars>>

-----------------------------------------------------------------------------
(***************************************************************************)
(* util/svg.py: SVGCache, and its callers in util/pdf.py                    *)
(***************************************************************************)

\* MySVG
firstPageFrame == "pdfFactory.svg.frame.path"
waterPrint     == "pdfFactory.svg.logoWaterPrint.path"
Keys           == {firstPageFrame, waterPrint}

Unset == "<unset>"

\* The drawing files of the file system: the height (in inches) of the
\* drawing a path holds, 0 for a path svg2rlg cannot load.
SvgFiles ==
    ( "asset/svg/frame.svg" :> 8 @@ "asset/svg/logo.svg" :> 2
   @@ "asset/svg/square.svg" :> 4 @@ "asset/svg/broken.svg" :> 0 )

EnvValues == {Unset} \cup DOMAIN SvgFiles

\* A drawing object: its identity, its height attribute and the scale its
\* transform has accumulated (a fraction).  None is the absent drawing.
Drawing(id, h) == [id |-> id, height |-> h, sx |-> <<1, 1>>]
None           == [id |-> 0, height |-> 0, sx |-> <<1, 1>>]

\* svg2rlg(path): a fresh drawing, or None when the file cannot be loaded
svg2rlg(path, id) ==
    IF SvgFiles[path] = 0 THEN None ELSE Drawing(id, SvgFiles[path])

EmptyCache == [k \in {} |-> None]

\* The cache with the bookkeeping of its loads.
World(c, l, f, n) == [cache |-> c, loads |-> l, firstId |-> f, nextId |-> n]

\* SVGCache.insert, reached from checkout with what svg2rlg returned
insert(w, key, drawing) ==
    [ cache   |-> (key :> drawing) @@ w.cache,
      loads   |-> [w.loads EXCEPT ![key] = @ + 1],
      firstId |-> [w.firstId EXCEPT ![key] = IF @ = 0 THEN drawing.id ELSE @],
      nextId  |-> w.nextId + 1 ]

checkout_reload(w, env, key) ==
    IF env[key] = Unset
    THEN [w |-> w, ret |-> None, raised |-> "KeyError"]
    ELSE LET drawing == svg2rlg(env[key], w.nextId) IN
         [w |-> insert(w, key, drawing), ret |-> drawing, raised |-> ""]

\* SVGCache.checkout
checkout(w, env, key) ==
    IF key \in DOMAIN w.cache
    THEN [w |-> w, ret |-> w.cache[key], raised |-> ""]
    ELSE IF env[key] = Unset
         THEN [w |-> w, ret |-> None, raised |-> "KeyError"]
         ELSE LET drawing == svg2rlg(env[key], w.nextId) IN
              [w |-> insert(w, key, drawing), ret |-> drawing, raised |-> ""]

\* Drawing.scale(k, k) with k = height / drawing.height: the transform is
\* multiplied, the height attribute stays
scale(drawing, height) ==
    [drawing EXCEPT !.sx = <<@[1] * height, @[2] * drawing.height>>]

\* SVGCache.resize_drawing_by_height: the cached object is scaled in place
resize_drawing_by_height(w, env, key, height) ==
    LET r == checkout(w, env, key) IN
    IF r.raised # "" THEN r
    ELSE IF r.ret = None THEN r
    ELSE LET d == scale(r.ret, height) IN
         [ w |-> [r.w EXCEPT !.cache[key] = d], ret |-> d, raised |-> "" ]

\* one key of _prepare_svg: checkout, then resize to 4 inches
prepare_key(w, env, key) ==
    LET r == checkout(w, env, key) IN
    IF r.raised # "" THEN r ELSE resize_drawing_by_height(r.w, env, key, 4)

_prepare_svg(w, env) ==
    LET r == prepare_key(w, env, firstPageFrame) IN
    IF r.raised # "" THEN r ELSE prepare_key(r.w, env, waterPrint)

decorate_resize(w, env, key) ==
    LET r == resize_drawing_by_height(w, env, key, 4) IN
    IF r.raised = "" /\ r.ret = None
    THEN [r EXCEPT !.raised = "AttributeError"]
    ELSE r

\* the drawing part of a page decoration: checkout, then drawing.getBounds()
decorate(w, env, key) ==
    LET r == checkout(w, env, key) IN
    IF r.raised = "" /\ r.ret = None
    THEN [r EXCEPT !.raised = "AttributeError"]
    ELSE r

_render_first_page(w, env)  == decorate(w, env, firstPageFrame)
_render_normal_page(w, env) == decorate(w, env, waterPrint)

TheWorld == World(cache, loads, firstId, nextId)

SetWorld(w) ==
    /\ cache' = w.cache
    /\ loads' = w.loads
    /\ firstId' = w.firstId
    /\ nextId' = w.nextId

\* the import of util/pdf.py runs _prepare_svg() once; a raise ends the import
PrepareSvg ==
    /\ imported = "no"
    /\ LET r == _prepare_svg(TheWorld, environ) IN
        /\ SetWorld(r.w)
        /\ imported' = IF r.raised = "" THEN "yes" ELSE "failed"
        /\ svg_ret' = [op |-> "_prepare_svg", key |-> waterPrint,
                       value |-> r.ret, raised |-> r.raised]
    /\ UNCHANGED <<environ, calls>>
    /\ UNCHANGED <<fontVars, styleVars, docVars, log>>

\* a page decoration of a build, as the layout engine calls it per page
Rendered(r, key) ==
    /\ imported = "yes"
    /\ calls < MaxCalls
    /\ SetWorld(r.w)
    /\ svg_ret' = [op |-> "checkout", key |-> key, value |-> r.ret, raised |-> r.raised]
    /\ calls' = calls + 1
    /\ UNCHANGED <<environ, imported>>
    /\ UNCHANGED <<fontVars, styleVars, docVars, log>>

RenderFirstPage == Rendered(_render_first_page(TheWorld, environ), firstPageFrame)

RenderNormalPage == Rendered(_render_normal_page(TheWorld, environ), waterPrint)

-----------------------------------------------------------------------------
(***************************************************************************)
(* util/pdf.py: the page templates and the layout run of doc.build          *)
(***************************************************************************)

\* doc.addPageTemplates([...]): the registered templates, in order
PageTemplates == <<"FirstPage", "TwoColumnsPage", "NormalPage">>

TemplateIds == { PageTemplates[i] : i \in 1..Len(PageTemplates) }

\* the frames of a template, in the order the layout fills them
FramesOf(t) ==
    IF t = "FirstPage" THEN <<"firstPageFrame">>
    ELSE IF t = "TwoColumnsPage"
         THEN <<"twoColumnsPageLeftFrame", "twoColumnsPageRightFrame">>
         ELSE <<"normalPageFrame">>

\* the onPage callback of a template
onPage(t, w, env) ==
    IF t = "FirstPage" THEN _render_first_page(w, env) ELSE _render_normal_page(w, env)

\* A content element: a flowable object.  name is the style of a paragraph
\* or the template of a NextPageTemplate; lines is its height; postponed is
\* the _postponed mark the layout leaves on an object it moved to the next
\* frame; req remembers the style name the caller asked for.
Elem(kind, name, lines, req) ==
    [kind |-> kind, name |-> name, lines |-> lines, postponed |-> FALSE, req |-> req]

Paragraph(style, lines, req) == Elem("Paragraph", style, lines, req)
Spacer                       == Elem("Spacer", "", 1, "")
PageBreak                    == Elem("PageBreak", "", 0, "")
FrameBreak                   == Elem("FrameBreak", "", 0, "")
NextPageTemplate(name)       == Elem("NextPageTemplate", name, 0, "")

\* Image(path_or_bytes) with its drawHeight; name is the source
Image(source, lines) == Elem("Image", source, lines, "")

IsContent(e) == e.kind \in {"Paragraph", "Spacer", "Image"}

\* where the layout handled a flowable
Placed(f, L, n) ==
    [id |-> f.id, page |-> L.page, template |-> L.tmpl, frame |-> L.frame, lines |-> n]

\* handle_pageEnd: the page is closed, a pending NextPageTemplate takes
\* effect, and a PageBegin is left hanging
handle_pageEnd(L) ==
    [L EXCEPT !.tmpl = IF L.next # "" THEN L.next ELSE @,
              !.next = "", !.hanging = TRUE]

\* handle_frameEnd: the next frame of the page, or the end of the page
handle_frameEnd(L) ==
    IF L.frame < Len(FramesOf(L.tmpl))
    THEN [L EXCEPT !.frame = @ + 1, !.used = 0]
    ELSE handle_pageEnd(L)

\* handle_pageBegin: a new page of the current template, decorated by the
\* template's onPage callback, its first frame current
handle_pageBegin(L, env) ==
    LET r == onPage(L.tmpl, L.w, env) IN
    IF r.raised # ""
    THEN [L EXCEPT !.page = @ + 1, !.w = r.w, !.outcome = r.raised]
    ELSE [L EXCEPT !.page = @ + 1, !.pages = Append(@, L.tmpl), !.w = r.w,
                   !.frame = 1, !.used = 0, !.hanging = FALSE]

\* handle_flowable: the first flowable is taken off the list and handled
handle_flowable(L) ==
    LET f     == Head(L.fl)
        M     == [L EXCEPT !.fl = Tail(@)]
        avail == FrameLines - L.used
    IN
    IF f.e.kind = "NextPageTemplate"
    THEN IF f.e.name \in TemplateIds
         THEN [M EXCEPT !.next = f.e.name, !.placed = Append(@, Placed(f, L, 0))]
         ELSE [M EXCEPT !.outcome = "ValueError"]
    ELSE IF f.e.kind = "PageBreak"
    THEN handle_pageEnd([M EXCEPT !.placed = Append(@, Placed(f, L, 0))])
    ELSE IF f.e.kind = "FrameBreak"
    THEN handle_frameEnd([M EXCEPT !.placed = Append(@, Placed(f, L, 0))])
    ELSE IF f.e.lines <= avail
    THEN \* frame.add takes it
         [M EXCEPT !.used = @ + f.e.lines,
                   !.placed = Append(@, Placed(f, L, f.e.lines))]
    ELSE IF f.e.kind = "Paragraph" /\ avail >= 2
    THEN \* Paragraph.split (no orphan line): the first part is added, the
         \* rest, a new paragraph, goes back to the front of the list
         [M EXCEPT !.used = FrameLines,
                   !.placed = Append(@, Placed(f, L, avail)),
                   !.fl = <<[f EXCEPT !.e.lines = @ - avail,
                                      !.e.postponed = FALSE]>> \o @]
    ELSE IF f.e.postponed
    THEN [M EXCEPT !.outcome = "LayoutError"]
    ELSE \* put back, marked, and tried again in the next frame
         handle_frameEnd([L EXCEPT !.fl[1].e.postponed = TRUE])

\* _endBuild: a page that is open is closed; canv.save writes the buffer
_endBuild(L) ==
    [(IF L.hanging THEN L ELSE handle_pageEnd(L)) EXCEPT !.outcome = "ok"]

\* the while loop of BaseDocTemplate.build
RECURSIVE layout(_, _)
layout(L, env) ==
    IF L.outcome # "" THEN L
    ELSE IF L.fl = <<>> THEN _endBuild(L)
    ELSE LET L1 == IF L.hanging THEN handle_pageBegin(L, env) ELSE L IN
         IF L1.outcome # "" THEN L1 ELSE layout(handle_flowable(L1), env)

\* handle_documentBegin: the first template, page 0, a PageBegin hanging
StartLayout(elems, w) ==
    [ fl |-> [i \in 1..Len(elems) |-> [id |-> i, e |-> elems[i]]],
      hanging |-> TRUE, page |-> 0, tmpl |-> PageTemplates[1], next |-> "",
      frame |-> 1, used |-> 0, pages |-> <<>>, placed |-> <<>>,
      w |-> w, outcome |-> "" ]

\* self.doc.build(self.elements)
doc_build(elems, w, env) == layout(StartLayout(elems, w), env)

-----------------------------------------------------------------------------
(***************************************************************************)
(* util/pdf.py: PDFUtil and PDFGenerator                                    *)
(***************************************************************************)

\* What the callers of the model pass in.
StyleInputs    == {"cBodyText", "bt", "no-such-style"}
LineInputs     == {1, FrameLines + 1}
TemplateInputs == TemplateIds \cup {"NoSuchPage"}
SavePaths      == {"pdf/a.pdf", "pdf/b.pdf"}

\* The image sources: imageHeight / imageWidth of the picture a source
\* holds, 0 for a source that cannot be read as an image.
ImageFiles   == ( "img/square.png" :> 1 @@ "img/missing.png" :> 0 )
WidthInputs  == {1, 2}
CaptionLines == 1

Result(op, arg, value, raised) ==
    [op |-> op, arg |-> arg, value |-> value, raised |-> raised]

Warning(event, name) == [event |-> event, name |-> name]

\* insert_paragraph(text, style): lines stands for the length of the text
insert_paragraph(els, sh, lines, style) ==
    IF StyleContains(sh, style)
    THEN [ elements |-> els \o <<Paragraph(StyleKey(sh, style), lines, style), Spacer>>,
           warns |-> <<>>, raised |-> "" ]
    ELSE IF StyleContains(sh, "BodyText")
    THEN [ elements |-> els \o <<Paragraph(StyleKey(sh, "BodyText"), lines, style), Spacer>>,
           warns |-> <<Warning("style_not_available", style)>>, raised |-> "" ]
    ELSE [ elements |-> els, warns |-> <<>>, raised |-> "KeyError" ]

\* insert_image_with_caption(path_or_bytes, caption, width): reading
\* img.imageWidth loads the picture; the image is appended, then the caption
\* style is looked up
insert_image_with_caption(els, sh, source, width) ==
    IF ImageFiles[source] = 0
    THEN [ elements |-> els, raised |-> "OSError" ]
    ELSE LET img  == Image(source, width * ImageFiles[source])
             els1 == Append(els, img)
         IN
         IF StyleContains(sh, "ImageCaption")
         THEN [ elements |-> els1 \o
                    <<Paragraph(StyleKey(sh, "ImageCaption"), CaptionLines,
                                "ImageCaption"), Spacer>>,
                raised |-> "" ]
         ELSE [ elements |-> els1, raised |-> "KeyError" ]

insert_page_break(els)  == Append(els, PageBreak)

insert_frame_break(els) == Append(els, FrameBreak)

switch_page_template_no_break(els, name) == Append(els, NextPageTemplate(name))

\* switch_page_template(name): the marker, then insert_page_break()
switch_page_template(els, name) ==
    insert_page_break(Append(els, NextPageTemplate(name)))

\* BytesIO.getvalue(): the whole content, wherever the position is
getvalue(b) == b

save_read(b, fs, path, writable) ==
    IF writable
    THEN [ buff |-> <<>>, files |-> [fs EXCEPT ![path] = getvalue(b)],
           ret |-> Result("save", path, path, "") ]
    ELSE [ buff |-> b, files |-> fs, ret |-> Result("save", path, "", "OSError") ]

\* save(path): the buffer is written to the file, the path returned
save(b, fs, path, writable) ==
    IF writable
    THEN [ buff |-> b, files |-> [fs EXCEPT ![path] = getvalue(b)],
           ret |-> Result("save", path, path, "") ]
    ELSE [ buff |-> b, files |-> fs, ret |-> Result("save", path, "", "OSError") ]

NoFile == <<"<no file>">>

Tick == nops' = nops + 1

InsertParagraph ==
    /\ nops < MaxOps
    /\ \E style \in StyleInputs, lines \in LineInputs :
        LET r == insert_paragraph(elements, styles, lines, style) IN
        /\ elements' = r.elements
        /\ log' = log \o r.warns
        /\ ret' = Result("insert_paragraph", style, "", r.raised)
    /\ Tick
    /\ UNCHANGED <<buff, date, files, built, stamp>>
    /\ UNCHANGED <<fontVars, styleVars, svgVars>>

InsertImageWithCaption ==
    /\ nops < MaxOps
    /\ \E source \in DOMAIN ImageFiles, width \in WidthInputs :
        LET r == insert_image_with_caption(elements, styles, source, width) IN
        /\ elements' = r.elements
        /\ ret' = Result("insert_image_with_caption", source, "", r.raised)
    /\ Tick
    /\ UNCHANGED <<buff, date, files, built, log, stamp>>
    /\ UNCHANGED <<fontVars, styleVars, svgVars>>

InsertPageBreak ==
    /\ nops < MaxOps
    /\ elements' = insert_page_break(elements)
    /\ ret' = Result("insert_page_break", "", "", "")
    /\ Tick
    /\ UNCHANGED <<buff, date, files, built, log, stamp>>
    /\ UNCHANGED <<fontVars, styleVars, svgVars>>

InsertFrameBreak ==
    /\ nops < MaxOps
    /\ elements' = insert_frame_break(elements)
    /\ ret' = Result("insert_frame_break", "", "", "")
    /\ Tick
    /\ UNCHANGED <<buff, date, files, built, log, stamp>>
    /\ UNCHANGED <<fontVars, styleVars, svgVars>>

SwitchPageTemplate ==
    /\ nops < MaxOps
    /\ \E name \in TemplateInputs :
        /\ elements' = switch_page_template(elements, name)
        /\ ret' = Result("switch_page_template", name, "", "")
    /\ Tick
    /\ UNCHANGED <<buff, date, files, built, log, stamp>>
    /\ UNCHANGED <<fontVars, styleVars, svgVars>>

\* build(): the date is taken, the elements are laid out (the list is
\* consumed as they are handled) and, when the run ends, the document is
\* written into the buffer
Build ==
    /\ nops < MaxOps
    /\ LET L == doc_build(elements, TheWorld, environ) IN
        /\ date' = date + 1
        /\ elements' = [i \in 1..Len(L.fl) |-> L.fl[i].e]
        /\ buff' = IF L.outcome = "ok"
                   THEN Append(buff, [date |-> date', pages |-> L.pages,
                                      placed |-> L.placed])
                   ELSE buff
        /\ SetWorld(L.w)
        /\ built' = [seq |-> elements, outcome |-> L.outcome,
                     buff |-> buff', done |-> built.done +
                                               (IF L.outcome = "ok" THEN 1 ELSE 0)]
        /\ ret' = Result("build", "", IF L.outcome = "ok" THEN "self.buff" ELSE "",
                         IF L.outcome = "ok" THEN "" ELSE L.outcome)
    /\ Tick
    /\ UNCHANGED <<files, stamp, log, environ, imported, svg_ret, calls>>
    /\ UNCHANGED <<fontVars, styleVars>>

\* PDFGenerator(): another instance, with its own buffer and elements; the
\* drawing cache belongs to the module and is shared
NewGenerator ==
    /\ nops < MaxOps
    /\ elements' = <<>>
    /\ buff' = <<>>
    /\ built' = [seq |-> <<>>, outcome |-> "", buff |-> <<>>, done |-> 0]
    /\ ret' = Result("__init__", "", "", "")
    /\ Tick
    /\ UNCHANGED <<date, files, log, stamp>>
    /\ UNCHANGED <<fontVars, styleVars, svgVars>>

Save ==
    /\ nops < MaxOps
    /\ \E path \in SavePaths, writable \in BOOLEAN :
        LET r == save(buff, files, path, writable) IN
        /\ buff' = r.buff
        /\ files' = r.files
        /\ ret' = r.ret
        /\ stamp' = IF r.ret.raised = "" THEN [stamp EXCEPT ![path] = date] ELSE stamp
    /\ Tick
    /\ UNCHANGED <<elements, date, built, log>>
    /\ UNCHANGED <<fontVars, styleVars, svgVars>>

-----------------------------------------------------------------------------
(***************************************************************************)
(* The specifications                                                      *)
(***************************************************************************)

NoOverride == [set |-> FALSE, value |-> EmptyPath]

\* before anything has run
FontPending ==
    /\ registered = <<>>
    /\ font_name = ""
    /\ font_status = "pending"

StylesPending ==
    /\ sheet = SampleStyleSheet
    /\ styles = SampleStyleSheet
    /\ styles_status = "pending"

SvgPending ==
    /\ cache = EmptyCache
    /\ loads = [k \in Keys |-> 0]
    /\ firstId = [k \in Keys |-> 0]
    /\ nextId = 1
    /\ imported = "no"
    /\ svg_ret = Result("", "", None, "")
    /\ calls = 0

\* PDFGenerator(): an empty buffer, no elements
DocNew ==
    /\ elements = <<>>
    /\ buff = <<>>
    /\ date = 0
    /\ files = [p \in SavePaths |-> NoFile]
    /\ built = [seq |-> <<>>, outcome |-> "", buff |-> <<>>, done |-> 0]
    /\ ret = Result("__init__", "", "", "")
    /\ nops = 0
    /\ stamp = [p \in SavePaths |-> -1]

\* the class body of PDFBasic on a machine with no font file at all
FontReady ==
    /\ override = NoOverride
    /\ registrable = {}
    /\ cidOk = TRUE
    /\ LET r == register_chinese_font(override, registrable, cidOk) IN
        /\ registered = r.registered
        /\ font_name = r.name
        /\ font_status = r.status

StylesReady ==
    /\ sheet = SampleStyleSheet
    /\ styles = setup_styles(sheet, font_name).styles
    /\ styles_status = "returned"

\* the drawing cache as an import of util/pdf.py that did not raise leaves it
SvgReady ==
    /\ environ \in [Keys -> {"asset/svg/logo.svg", "asset/svg/broken.svg"}]
    /\ LET r == _prepare_svg(World(EmptyCache, [k \in Keys |-> 0],
                                   [k \in Keys |-> 0], 1), environ) IN
        /\ r.raised = ""
        /\ cache = r.w.cache
        /\ loads = r.w.loads
        /\ firstId = r.w.firstId
        /\ nextId = r.w.nextId
        /\ svg_ret = Result("_prepare_svg", waterPrint, r.ret, "")
    /\ imported = "yes"
    /\ calls = 0

\* ---- the font resolver, over every environment ----
InitFont ==
    /\ override \in OverrideChoices
    /\ registrable \in SUBSET AllFontPaths
    /\ cidOk \in BOOLEAN
    /\ FontPending
    /\ StylesPending
    /\ environ = [k \in Keys |-> Unset]
    /\ SvgPending
    /\ DocNew
    /\ log = <<>>

NextFont == RegisterChineseFont

SpecFont == InitFont /\ [][NextFont]_vars

\* ---- the style registry, over every font and every stock sheet ----
InitStyles ==
    /\ override = NoOverride
    /\ registrable = {}
    /\ cidOk = TRUE
    /\ font_name \in {default_font_name, "simsun"}
    /\ registered = <<font_name>>
    /\ font_status = "returned"
    /\ \E N \in SUBSET CustomNames : \E A \in SUBSET (CustomNames \ N) :
        sheet = StockSheet(N, A)
    /\ styles = sheet
    /\ styles_status = "pending"
    /\ environ = [k \in Keys |-> Unset]
    /\ SvgPending
    /\ DocNew
    /\ log = <<>>

NextStyles == SetupStyles

SpecStyles == InitStyles /\ [][NextStyles]_vars

\* ---- the drawing cache: the import, then page decorations ----
InitSvg ==
    /\ FontReady
    /\ StylesReady
    /\ environ \in [Keys -> EnvValues]
    /\ SvgPending
    /\ DocNew
    /\ log = <<>>

NextSvg == PrepareSvg \/ RenderFirstPage \/ RenderNormalPage

SpecSvg == InitSvg /\ [][NextSvg]_vars

\* ---- a generator: inserts, switches and builds ----
Init ==
    /\ FontReady
    /\ StylesReady
    /\ SvgReady
    /\ DocNew
    /\ log = <<>>

Next ==
    \/ InsertParagraph
    \/ InsertPageBreak
    \/ InsertFrameBreak
    \/ SwitchPageTemplate
    \/ Build

Spec == Init /\ [][Next]_vars

\* ---- a generator: inserts, builds and saves ----
NextSave == InsertParagraph \/ Build \/ Save

SpecSave == Init /\ [][NextSave]_vars

\* ---- a generator: images with captions, paragraphs and builds ----
NextImage == InsertImageWithCaption \/ InsertParagraph \/ Build

SpecImage == Init /\ [][NextImage]_vars

\* ---- a process: the import of util/pdf.py, then generators at work ----
ProcessEnv == {Unset, "asset/svg/logo.svg", "asset/svg/broken.svg"}

InitProcess ==
    /\ FontReady
    /\ StylesReady
    /\ environ \in [Keys -> ProcessEnv]
    /\ SvgPending
    /\ DocNew
    /\ log = <<>>

NextProcess ==
    \/ PrepareSvg
    \/ imported = "yes" /\ NewGenerator
    \/ imported = "yes" /\ InsertParagraph
    \/ imported = "yes" /\ SwitchPageTemplate
    \/ imported = "yes" /\ Build
    \/ imported = "yes" /\ Save

SpecProcess == InitProcess /\ [][NextProcess]_vars

-----------------------------------------------------------------------------
(***************************************************************************)
(* The claims                                                              *)
(***************************************************************************)

\* the candidates as the claim lists them: the override when it is set,
\* then the system paths in declaration order
C3_Candidates ==
    (IF override.set THEN <<override.value>> ELSE <<>>) \o system_font_paths

C3_Hits == { i \in 1..Len(C3_Candidates) : C3_Candidates[i] \in registrable }

C3_First == CHOOSE i \in C3_Hits : \A j \in C3_Hits : i <= j

\* C3: register_chinese_font returns the base name (without extension) of
\* the first candidate that registers, in the order override, system paths;
\* when none registers it registers the built-in font and returns
\* 'STSong-Light'; it raises exactly when that registration fails too; a
\* run that returns has registered exactly one font.
C3_FirstRegistrableWins ==
    font_status # "pending" =>
        /\ C3_Hits # {} =>
            /\ font_status = "returned"
            /\ font_name = C3_Candidates[C3_First].stem
        /\ (C3_Hits = {} /\ cidOk) =>
            /\ font_status = "returned"
            /\ font_name = "STSong-Light"
        /\ font_status = "raised" <=> (C3_Hits = {} /\ ~cidOk)
        /\ font_status = "returned" => registered = <<font_name>>
        /\ font_status = "raised" => registered = <<>>

\* C3 witness: the override and the first system path fail, the second
\* system path registers
C3_Witness ==
    /\ font_status = "returned"
    /\ override.set /\ override.value.stem = "custom"
    /\ override.value \notin registrable
    /\ system_font_paths[1] \notin registrable
    /\ system_font_paths[2] \in registrable
    /\ font_name = "simsun"

C2_Collides(c) == c \in DOMAIN sheet.byName \/ c \in DOMAIN sheet.byAlias

C2_Warned(c) ==
    \E i \in 1..Len(log) : log[i] = [event |-> "style_defined", name |-> c]

\* C2: after setup_styles(font_name) every style of the set, stock or
\* custom, has font_name as its font; a custom style whose name the stock
\* sheet already has is not added: the stock definition is kept, a warning
\* is logged, and the stock entry has font_name too.
C2_EveryStyleHasTheFont ==
    styles_status = "returned" =>
        /\ \A n \in DOMAIN styles.byName : styles.byName[n].fontName = font_name
        /\ DOMAIN styles.byName =
               DOMAIN sheet.byName \cup { c \in CustomNames : ~C2_Collides(c) }
        /\ styles.byAlias = sheet.byAlias
        /\ \A n \in DOMAIN sheet.byName :
               styles.byName[n] = [sheet.byName[n] EXCEPT !.fontName = font_name]
        /\ \A i \in 1..Len(custom_styles) :
               LET c == custom_styles[i] IN
               IF C2_Collides(c.name)
               THEN C2_Warned(c.name)
               ELSE /\ ~C2_Warned(c.name)
                    /\ styles.byName[c.name].parent = c.parent

\* C2 witness: one custom name collides with a stock style, another is added
C2_Witness ==
    /\ styles_status = "returned"
    /\ "cTitle" \in DOMAIN sheet.byName
    /\ sheet.byName["cTitle"].fontName # font_name
    /\ "cBodyText" \notin DOMAIN sheet.byName
    /\ "cBodyText" \in DOMAIN styles.byName
    /\ C2_Warned("cTitle")

\* C7: the source of a key is loaded at most once: the first checkout that
\* loads stores the drawing, and every later checkout of the key returns
\* that stored instance.
C7_LoadedAtMostOnce ==
    /\ \A k \in Keys :
        /\ loads[k] <= 1
        /\ k \in DOMAIN cache <=> loads[k] = 1
        /\ k \in DOMAIN cache => cache[k].id = firstId[k]
    /\ (svg_ret.op = "checkout" /\ svg_ret.raised # "KeyError") =>
        /\ svg_ret.key \in DOMAIN cache
        /\ svg_ret.value = cache[svg_ret.key]
        /\ svg_ret.value.id = firstId[svg_ret.key]

\* C7 witness: a page decoration, not the first, got the drawing the import
\* loaded
C7_Witness ==
    /\ calls >= 2
    /\ svg_ret.op = "checkout"
    /\ svg_ret.raised = ""
    /\ svg_ret.value.id # 0
    /\ loads[svg_ret.key] = 1

C8_Resolvable(k) ==
    /\ environ[k] # Unset
    /\ SvgFiles[environ[k]] # 0

\* C8: checkout of a key with no resolvable drawing source (the key is not
\* set, or its path cannot be loaded) fails and stores nothing: the cache
\* never holds, and checkout never returns, an absent drawing.
C8_NoAbsentDrawing ==
    /\ \A k \in Keys : ~C8_Resolvable(k) => k \notin DOMAIN cache
    /\ \A k \in DOMAIN cache : cache[k] # None
    /\ (svg_ret.op = "checkout" /\ svg_ret.raised # "KeyError") => svg_ret.value # None

\* the document the last build wrote, when it returned
LastDoc == built.buff[Len(built.buff)]

PlacementsOf(j) == { k \in 1..Len(LastDoc.placed) : LastDoc.placed[k].id = j }

RECURSIVE SumLines(_, _)
SumLines(placed, ks) ==
    IF ks = {} THEN 0
    ELSE LET k == CHOOSE x \in ks : TRUE IN
         placed[k].lines + SumLines(placed, ks \ {k})

IsFallback(e) == e.kind = "Paragraph" /\ ~StyleContains(styles, e.req)

C1_Insert ==
    (ret.op = "insert_paragraph" /\ ~StyleContains(styles, ret.arg)) =>
        /\ ret.raised = ""
        /\ Len(elements) >= 2
        /\ elements[Len(elements) - 1].kind = "Paragraph"
        /\ elements[Len(elements) - 1].name = "BodyText"
        /\ elements[Len(elements) - 1].req = ret.arg
        /\ elements[Len(elements)] = Spacer
        /\ Len(log) >= 1
        /\ log[Len(log)] = [event |-> "style_not_available", name |-> ret.arg]

C1_LaterBuild ==
    (built.outcome # "" /\ \E i \in 1..Len(built.seq) : IsFallback(built.seq[i]))
        => built.outcome = "ok"

\* C1: insert_paragraph with a style name that is neither a stock style
\* (name or alias) nor a custom style does not raise, appends a BodyText
\* paragraph and its spacer and records a warning; a later build of that
\* sequence succeeds.
C1_UnknownStyleFallsBack == C1_Insert /\ C1_LaterBuild

\* the switch that governs element j of the built sequence: the last
\* NextPageTemplate before it (0: none)
C4_Governing(j) ==
    LET S == { i \in 1..(j - 1) : built.seq[i].kind = "NextPageTemplate" } IN
    IF S = {} THEN 0 ELSE CHOOSE i \in S : \A m \in S : m <= i

C4_Marker ==
    (ret.op = "switch_page_template" /\ ret.arg \in TemplateIds) =>
        /\ Len(elements) >= 2
        /\ elements[Len(elements) - 1] = NextPageTemplate(ret.arg)
        /\ elements[Len(elements)] = PageBreak

C4_Placement ==
    built.outcome = "ok" =>
        \A j \in 1..Len(built.seq) :
            IsContent(built.seq[j]) =>
                LET g == C4_Governing(j)
                    t == IF g = 0 THEN "FirstPage" ELSE built.seq[g].name
                IN
                /\ PlacementsOf(j) # {}
                /\ \A k \in PlacementsOf(j) :
                    LET p == LastDoc.placed[k] IN
                    /\ p.template = t
                    /\ LastDoc.pages[p.page] = t
                    /\ p.frame \in 1..Len(FramesOf(t))
                    /\ g # 0 => \A m \in PlacementsOf(g) :
                                    p.page > LastDoc.placed[m].page

C4_FramesInOrder ==
    built.outcome = "ok" =>
        /\ \A k \in 1..(Len(LastDoc.placed) - 1) :
            LET p == LastDoc.placed[k]
                q == LastDoc.placed[k + 1]
            IN  \/ q.page > p.page
                \/ q.page = p.page /\ q.frame >= p.frame
        /\ \A k \in 1..Len(LastDoc.placed) :
            LET p == LastDoc.placed[k] IN
            SumLines(LastDoc.placed,
                     { m \in 1..Len(LastDoc.placed) :
                         /\ LastDoc.placed[m].page = p.page
                         /\ LastDoc.placed[m].frame = p.frame }) <= FrameLines

\* C4: switch_page_template(name) with a registered name appends the
\* NextPageTemplate(name) marker immediately followed by a page break; in
\* the built document every element inserted after the switch and before
\* any later switch lies on a page of template name that begins after the
\* page the switch was met on, in that template's frames taken in order;
\* the elements before any switch lie on FirstPage pages.
C4_SwitchTakesEffectOnNewPage == C4_Marker /\ C4_Placement /\ C4_FramesInOrder

\* C4 witness: a built document whose first element is a switch to
\* TwoColumnsPage and whose page 2 holds text in the left and the right frame
C4_Witness ==
    /\ built.outcome = "ok"
    /\ Len(built.seq) >= 3
    /\ built.seq[1] = NextPageTemplate("TwoColumnsPage")
    /\ \E k1, k2 \in 1..Len(LastDoc.placed) :
        /\ LastDoc.placed[k1].page = 2 /\ LastDoc.placed[k2].page = 2
        /\ LastDoc.placed[k1].template = "TwoColumnsPage"
        /\ LastDoc.placed[k1].frame = 1 /\ LastDoc.placed[k1].lines > 0
        /\ LastDoc.placed[k2].frame = 2 /\ LastDoc.placed[k2].lines > 0

C5_Written ==
    /\ buff = built.buff
    /\ \A p \in SavePaths : stamp[p] = date => files[p] = built.buff
    /\ (ret.op = "save" /\ ret.raised = "") =>
        /\ ret.value = ret.arg
        /\ files[ret.arg] = buff

C5_SaveStep ==
    (ret'.op = "save" /\ nops' # nops) =>
        /\ buff' = buff
        /\ elements' = elements
        /\ ret'.raised = "" => files'[ret'.arg] = buff

\* C5: save(path) leaves the byte buffer and the element sequence as they
\* were; every save made after a build and before the next build writes
\* the buffer content that build ended with, and returns the path it wrote.
C5_SaveLeavesBufferAlone == []C5_Written /\ [][C5_SaveStep]_vars

\* C5 witness: after a build that returned, both paths were written
C5_Witness ==
    /\ built.outcome = "ok"
    /\ buff # <<>>
    /\ ret.op = "save"
    /\ \A p \in SavePaths : stamp[p] = date /\ files[p] = buff

C6_AllRegistered(seq) ==
    \A i \in 1..Len(seq) : seq[i].kind = "NextPageTemplate" => seq[i].name \in TemplateIds

\* C6: for every accumulated element sequence whose template names are all
\* registered, the empty one included, build() returns the byte buffer
\* without raising, lays out each element exactly once in insertion order,
\* and leaves the element sequence empty.
C6_BuildDrainsInOrder ==
    (built.outcome # "" /\ C6_AllRegistered(built.seq)) =>
        /\ built.outcome = "ok"
        /\ ret.op = "build" => (ret.raised = "" /\ ret.value = "self.buff"
                                /\ elements = <<>>)
        /\ \A j \in 1..Len(built.seq) :
            /\ PlacementsOf(j) # {}
            /\ SumLines(LastDoc.placed, PlacementsOf(j)) = built.seq[j].lines
        /\ \A k \in 1..(Len(LastDoc.placed) - 1) :
            LastDoc.placed[k].id <= LastDoc.placed[k + 1].id

\* C9: save writes a file only after a build has completed on the document:
\* it never writes the buffer of a document that was never built.
C9_SaveOnlyAfterBuild ==
    /\ (ret.op = "save" /\ ret.raised = "") => built.done >= 1
    /\ \A p \in SavePaths : files[p] # NoFile => files[p] # <<>>

\* C10: no element of the accumulated sequence references a style name
\* missing from the style set or a template name missing from the
\* registered templates: an unknown name is resolved or rejected when it
\* is inserted.
C10_NoUnknownNames ==
    \A i \in 1..Len(elements) :
        /\ elements[i].kind = "Paragraph" => elements[i].name \in DOMAIN styles.byName
        /\ elements[i].kind = "NextPageTemplate" => elements[i].name \in TemplateIds


\* ---- C11 ----
\* a call of insert_image_with_caption, as a step
C11_Call ==
    /\ nops' = nops + 1
    /\ ret'.op = "insert_image_with_caption"

C11_Appended ==
    /\ Len(elements') = Len(elements) + 3
    /\ SubSeq(elements', 1, Len(elements)) = elements
    /\ elements'[Len(elements) + 1].kind = "Image"
    /\ elements'[Len(elements) + 2].kind = "Paragraph"
    /\ elements'[Len(elements) + 2].name = StyleKey(styles, "cImageCaption")
    /\ elements'[Len(elements) + 3] = Spacer

C11_Step ==
    C11_Call =>
        /\ ImageFiles[ret'.arg] # 0 => ret'.raised = "" /\ C11_Appended
        /\ ret'.raised # "" => elements' = elements

\* C11: for every loadable image source and width, insert_image_with_caption
\* does not raise and appends the image, a caption paragraph in the
\* registered image-caption style (cImageCaption) and a spacer, in this
\* order; a call that raises leaves the element sequence as it was.
C11_ImageCaptionSpacer == [][C11_Step]_vars


\* ---- C12 ----
\* a drawing that Drawing.scale changed exactly once, by 4 / height
C12_ScaledOnce(d) == d.sx = <<4, d.height>>

C12_EachScaledOnce ==
    imported = "yes" =>
        \A k \in Keys :
            /\ k \in DOMAIN cache
            /\ loads[k] = 1
            /\ cache[k] # None => C12_ScaledOnce(cache[k])

C12_NoLaterScale ==
    imported = "yes" =>
        /\ DOMAIN cache' = DOMAIN cache
        /\ \A k \in DOMAIN cache : cache'[k] = cache[k]

\* C12: the import scales each cached drawing exactly once, and after it no
\* page decoration, build, save or new generator changes the scale of a
\* cached drawing, so every page of every document draws it at that scale.
C12_ScaledOncePerProcess == []C12_EachScaledOnce /\ [][C12_NoLaterScale]_vars

\* two builds, one of them with a first page and a normal page, both
\* decorations drawn from drawings that were loaded
C12_Witness ==
    /\ imported = "yes"
    /\ \A k \in Keys : cache[k] # None
    /\ date >= 2
    /\ \E i \in 1..Len(buff) :
        /\ Len(buff[i].pages) >= 2
        /\ buff[i].pages[1] = "FirstPage"
        /\ buff[i].pages[2] = "NormalPage"

=============================================================================
